---- MODULE Spec2Model ----
(***************************************************************************)
(* A model of locustfile.py: the MetricUser behaviour (wait_time and the   *)
(* send_metric task) run by the Locust harness in one worker process.      *)
(*                                                                         *)
(* Time is counted in milliseconds of the wall clock.  Python floats are   *)
(* modelled as exact fractions [num, den].  The process-wide generator of  *)
(* the random module is one shared variable, rng: every random.random()    *)
(* and random.randint() call reads it and advances it.                     *)
(***************************************************************************)
EXTENDS Integers, Sequences, FiniteSets, TLC

\* ------------------------------------------------------------------ bounds
\* Simulated users spawned in the worker process.
NumUsers == 2
\* Number of states of the process-wide generator (its resolution).
RngMod == 256
\* Wall clock (ms since the epoch) when the users are spawned.
ClockStart == 1999
\* The horizon of the wall clock: the run-time limit of a limited run, and
\* the value the observed clock saturates at in an unlimited run.
MaxClock == 2001

Users == 1..NumUsers
\* runTime of a run started without a run-time limit.
NoLimit == 0 - 1

\* ------------------------------------------------------- Python arithmetic
\* The greatest common divisor (Euclid).
GCD[a \in Nat, b \in Nat] == IF b = 0 THEN a ELSE GCD[b, a % b]

\* The fraction n/d (n >= 0, d > 0) in lowest terms.
Rat(n, d) == LET g == GCD[n, d] IN [num |-> n \div g, den |-> d \div g]
RatAdd(a, b) == Rat(a.num * b.den + b.num * a.den, a.den * b.den)
RatSub(a, b) == Rat(a.num * b.den - b.num * a.den, a.den * b.den)
RatMul(a, b) == Rat(a.num * b.num, a.den * b.den)
RatLeq(a, b) == a.num * b.den <= b.num * a.den
RatCeil(a) == IF a.num % a.den = 0 THEN a.num \div a.den ELSE (a.num \div a.den) + 1
\* x is a whole number
IsWhole(x) == x.num % x.den = 0

RECURSIVE Pow10(_)
Pow10(n) == IF n = 0 THEN 1 ELSE 10 * Pow10(n - 1)

\* Faulty variant of round: one decimal place too many is kept.
round_3digits(x, ndigits) ==
  LET scaled == x.num * Pow10(ndigits + 1)
      q == scaled \div x.den
      r == scaled % x.den
      up == (2 * r > x.den) \/ (2 * r = x.den /\ q % 2 = 1)
  IN Rat(IF up THEN q + 1 ELSE q, Pow10(ndigits + 1))

\* round(x, ndigits) of a float x >= 0: the nearest multiple of 10^-ndigits,
\* a tie going to the even one.
round(x, ndigits) ==
  LET scaled == x.num * Pow10(ndigits)
      q == scaled \div x.den
      r == scaled % x.den
      up == (2 * r > x.den) \/ (2 * r = x.den /\ q % 2 = 1)
  IN Rat(IF up THEN q + 1 ELSE q, Pow10(ndigits))

\* ---------------------------------------------------------- random module
\* The hidden state of the generator is a number below RngMod; one step of
\* the generator is a fixed permutation of the states.
RngNext(s) == (5 * s + 15) % RngMod

RECURSIVE Pow2(_)
Pow2(n) == IF n = 0 THEN 1 ELSE 2 * Pow2(n - 1)

RECURSIVE bit_length(_)
bit_length(n) == IF n = 0 THEN 0 ELSE 1 + bit_length(n \div 2)

\* getrandbits(k): the top k bits of the generator's word.
getrandbits(k, s) == (s * Pow2(k)) \div RngMod

\* random.random(): a float in [0, 1); the generator advances.
random_random(s) == [value |-> Rat(s, RngMod), state |-> RngNext(s)]

\* _randbelow(n): draw bit_length(n) bits until the draw is below n.
RECURSIVE randbelow(_, _)
randbelow(n, s) ==
  LET r == getrandbits(bit_length(n), s)
  IN IF r < n THEN [value |-> r, state |-> RngNext(s)]
     ELSE randbelow(n, RngNext(s))

\* random.randint(a, b): an integer N with a <= N <= b.
randint(a, b, s) ==
  LET d == randbelow(b - a + 1, s)
  IN [value |-> a + d.value, state |-> d.state]

\* ------------------------------------------------------------- formatting
Digit(d) == <<"0", "1", "2", "3", "4", "5", "6", "7", "8", "9">>[d + 1]

\* str(n) of an integer n >= 0, as a sequence of characters
RECURSIVE str(_)
str(n) == IF n < 10 THEN <<Digit(n)>> ELSE Append(str(n \div 10), Digit(n % 10))

DevicePrefix == <<"d", "e", "v", "i", "c", "e", "-">>

\* f"device-{n}"
device_name(n) == DevicePrefix \o str(n)

\* Faulty variant of timestamp_of: the seconds are rounded up.
timestamp_ceil(now) == (now + 999) \div 1000

\* int(time.time()) with the wall clock at `now` ms: whole epoch seconds
\* (int truncates).
timestamp_of(now) == now \div 1000

\* ------------------------------------------------------------ MetricUser
\* between(min_wait, max_wait), in seconds: min_wait + random.random() *
\* (max_wait - min_wait).
between(min_wait, max_wait, s) ==
  LET r == random_random(s)
  IN [value |-> RatAdd(min_wait, RatMul(r.value, RatSub(max_wait, min_wait))),
      state |-> r.state]

\* Faulty variant of wait_time: the bounds are given in milliseconds, which
\* between takes as the seconds 1 and 5.
wait_time_ms_args(s) == between(Rat(1, 1), Rat(5, 1), s)

\* wait_time = between(0.001, 0.005), drawn from the generator state s.
wait_time(s) == between(Rat(1, 1000), Rat(5, 1000), s)

\* The milliseconds the task loop sleeps for a think-time of w seconds.
sleep_ms(w) == RatCeil(RatMul(w, Rat(1000, 1)))

\* The states the generator can be in.
AllSeeds == 0..(RngMod - 1)

\* wait_time and the sleep it leads to, tabulated over the generator states.
WaitTime ==
  [s \in AllSeeds |->
     LET w == wait_time(s)
     IN [value |-> w.value, ms |-> sleep_ms(w.value), state |-> w.state]]

\* round(random.random()*100, 2), for the float x that random.random() gave.
cpu_value(x) == round(RatMul(x, Rat(100, 1)), 2)

\* Faulty variant of payload_fields: the device number is drawn from 0.
payload_fields_device_from_zero(s) ==
  LET d == randint(0, 200, s)
      c == random_random(d.state)
      r == randint(50, 150, c.state)
  IN [device |-> device_name(d.value),
      cpu |-> cpu_value(c.value),
      rps |-> r.value,
      state |-> r.state]

\* The items of the payload dict of send_metric that are drawn from the
\* generator, evaluated in the order of the dict display: device, cpu, rps.
payload_fields(s) ==
  LET d == randint(1, 200, s)
      c == random_random(d.state)
      r == randint(50, 150, c.state)
  IN [device |-> device_name(d.value),
      cpu |-> cpu_value(c.value),
      rps |-> r.value,
      state |-> r.state]

\* payload_fields tabulated over the generator states.
PayloadFields == [s \in AllSeeds |-> payload_fields(s)]

\* The payload dict of send_metric, built from the generator state s with
\* the wall clock at now, and the state it leaves the generator in.
build_payload(s, now) ==
  [payload |-> [device |-> PayloadFields[s].device,
                timestamp |-> timestamp_of(now),
                cpu |-> PayloadFields[s].cpu,
                rps |-> PayloadFields[s].rps],
   state |-> PayloadFields[s].state]

\* Faulty variant of after_post: the task stops its user when the response
\* is not a 2xx.
after_post_stop_on_error(status) == IF status \in 200..299 THEN "return" ELSE "stop"

\* What send_metric does once self.client.post has returned: the response is
\* not inspected and the task returns normally.
after_post(status) == "return"

\* ------------------------------------------------------------ the harness
\* HTTP statuses the endpoint may answer with; 0 stands for a request that
\* got no HTTP response (connection error, timeout).
Statuses == {200, 304, 500, 0}

\* Faulty variant of classify: no request is recorded as a failure.
classify_all_success(status) == "success"

\* The harness's entry for a finished request: a failure when the HTTP
\* client raises for the response, which it does for a missing response and
\* for the 4xx and 5xx statuses.
classify(status) ==
  IF status = 0 \/ status \in 400..599 THEN "failure" ELSE "success"

VARIABLES
  rng,        \* state of the process-wide generator of the random module
  clock,      \* wall clock, ms
  runTime,    \* the run-time limit of the harness (ms of wall clock), or NoLimit
  pc,         \* per user: "ready", "built", "awaiting", "sleeping", "stopped"
  payload,    \* per user: <<>> or <<the payload dict of the running send_metric>>
  builtAt,    \* per user: the wall clock when that payload was built
  inflight,   \* per user: the requests issued and not yet answered, in order
  posted,     \* per user: POSTs issued by its current (or last) send_metric
  think,      \* per user: <<>> or <<the think-time drawn for its last wait, s>>
  remaining,  \* per user: ms left of its think-time sleep
  outcome,    \* per user: <<>> or <<the harness's entry for its last request>>
  stopReq     \* per user: the harness has stopped it

vars == <<rng, clock, runTime, pc, payload, builtAt, inflight, posted, think,
          remaining, outcome, stopReq>>

\* Users are greenlets of one process: a user that is between two suspension
\* points holds the processor, and nothing else of the process runs.
CpuFree == \A v \in Users : pc[v] # "built"

\* The generator is seeded from the operating system's entropy.
Seeds == {0, 77}

Init ==
  /\ rng \in Seeds
  /\ clock = ClockStart
  /\ runTime = MaxClock
  /\ pc = [u \in Users |-> "ready"]
  /\ payload = [u \in Users |-> <<>>]
  /\ builtAt = [u \in Users |-> 0]
  /\ inflight = [u \in Users |-> <<>>]
  /\ posted = [u \in Users |-> 0]
  /\ think = [u \in Users |-> <<>>]
  /\ remaining = [u \in Users |-> 0]
  /\ outcome = [u \in Users |-> <<>>]
  /\ stopReq = [u \in Users |-> FALSE]

\* Faulty variant of send_metric_build: the task starts although the
\* think-time sleep is not over.
send_metric_build_nowait(u) ==
  /\ CpuFree
  /\ pc[u] = "ready" \/ pc[u] = "sleeping"
  /\ LET b == build_payload(rng, clock) IN
       /\ payload' = [payload EXCEPT ![u] = <<b.payload>>]
       /\ rng' = b.state
  /\ builtAt' = [builtAt EXCEPT ![u] = clock]
  /\ posted' = [posted EXCEPT ![u] = 0]
  /\ pc' = [pc EXCEPT ![u] = "built"]
  /\ UNCHANGED <<clock, runTime, inflight, think, remaining, outcome, stopReq>>

\* Faulty variant of send_metric_build: the payload is one dict of the class,
\* filled in place, so every user that holds a payload sees the new items.
send_metric_build_shared(u) ==
  /\ CpuFree
  /\ pc[u] = "ready" \/ (pc[u] = "sleeping" /\ remaining[u] = 0)
  /\ LET b == build_payload(rng, clock) IN
       /\ payload' = [v \in Users |->
                        IF v = u \/ payload[v] # <<>> THEN <<b.payload>> ELSE <<>>]
       /\ rng' = b.state
  /\ builtAt' = [builtAt EXCEPT ![u] = clock]
  /\ posted' = [posted EXCEPT ![u] = 0]
  /\ pc' = [pc EXCEPT ![u] = "built"]
  /\ UNCHANGED <<clock, runTime, inflight, think, remaining, outcome, stopReq>>

\* The first statements of send_metric: the user is scheduled (just spawned,
\* or its think-time sleep is over) and builds the payload.
send_metric_build(u) ==
  /\ CpuFree
  /\ pc[u] = "ready" \/ (pc[u] = "sleeping" /\ remaining[u] = 0)
  /\ LET b == build_payload(rng, clock) IN
       /\ payload' = [payload EXCEPT ![u] = <<b.payload>>]
       /\ rng' = b.state
  /\ builtAt' = [builtAt EXCEPT ![u] = clock]
  /\ posted' = [posted EXCEPT ![u] = 0]
  /\ pc' = [pc EXCEPT ![u] = "built"]
  /\ UNCHANGED <<clock, runTime, inflight, think, remaining, outcome, stopReq>>

\* The request self.client.post("/ingest", json=payload) puts on the wire.
post_request(u) ==
  [method |-> "POST", path |-> "/ingest", json |-> payload[u][1],
   builtAt |-> builtAt[u], sentAt |-> clock]

\* Faulty variant of send_metric_post: the request is handed to a greenlet of
\* its own, and the task returns to the think-time without the response.
send_metric_post_async(u) ==
  /\ pc[u] = "built"
  /\ inflight' = [inflight EXCEPT ![u] = Append(@, post_request(u))]
  /\ posted' = [posted EXCEPT ![u] = @ + 1]
  /\ payload' = [payload EXCEPT ![u] = <<>>]
  /\ builtAt' = [builtAt EXCEPT ![u] = 0]
  /\ LET w == WaitTime[rng] IN
       /\ rng' = w.state
       /\ think' = [think EXCEPT ![u] = <<w.value>>]
       /\ remaining' = [remaining EXCEPT ![u] = w.ms]
  /\ pc' = [pc EXCEPT ![u] = "sleeping"]
  /\ UNCHANGED <<clock, runTime, outcome, stopReq>>

\* self.client.post(...): the request is issued and the user is suspended
\* until the response or the failure arrives.
send_metric_post(u) ==
  /\ pc[u] = "built"
  /\ inflight' = [inflight EXCEPT ![u] = Append(@, post_request(u))]
  /\ posted' = [posted EXCEPT ![u] = @ + 1]
  /\ pc' = [pc EXCEPT ![u] = "awaiting"]
  /\ UNCHANGED <<rng, clock, runTime, payload, builtAt, think, remaining,
                 outcome, stopReq>>

\* Faulty variant of Respond: a request that failed is sent again.
Respond_retry(u, status) ==
  /\ CpuFree
  /\ inflight[u] # <<>>
  /\ IF pc[u] = "awaiting" /\ Len(inflight[u]) = 1
     THEN /\ outcome' = [outcome EXCEPT ![u] =
                           <<[status |-> status, result |-> classify(status)]>>]
          /\ IF classify(status) = "failure"
             THEN /\ inflight' = [inflight EXCEPT ![u] = <<post_request(u)>>]
                  /\ posted' = [posted EXCEPT ![u] = @ + 1]
                  /\ UNCHANGED <<rng, payload, builtAt, think, remaining, pc>>
             ELSE LET w == WaitTime[rng] IN
                    /\ inflight' = [inflight EXCEPT ![u] = Tail(@)]
                    /\ payload' = [payload EXCEPT ![u] = <<>>]
                    /\ builtAt' = [builtAt EXCEPT ![u] = 0]
                    /\ rng' = w.state
                    /\ think' = [think EXCEPT ![u] = <<w.value>>]
                    /\ remaining' = [remaining EXCEPT ![u] = w.ms]
                    /\ pc' = [pc EXCEPT ![u] = "sleeping"]
                    /\ UNCHANGED posted
     ELSE /\ inflight' = [inflight EXCEPT ![u] = Tail(@)]
          /\ UNCHANGED <<rng, payload, builtAt, think, remaining, outcome, pc,
                         posted>>
  /\ UNCHANGED <<clock, runTime, stopReq>>

\* The response (or the failure) of the user's request arrives: the harness
\* records it, post returns, send_metric returns, and the task loop draws the
\* think-time and sleeps.
Respond(u, status) ==
  /\ CpuFree
  /\ inflight[u] # <<>>
  /\ inflight' = [inflight EXCEPT ![u] = Tail(@)]
  /\ IF pc[u] = "awaiting" /\ Len(inflight[u]) = 1
     THEN /\ builtAt' = [builtAt EXCEPT ![u] = 0]
          /\ outcome' = [outcome EXCEPT ![u] =
                           <<[status |-> status, result |-> classify(status)]>>]
          /\ payload' = [payload EXCEPT ![u] = <<>>]
          /\ IF after_post(status) = "return"
             THEN LET w == WaitTime[rng] IN
                    /\ rng' = w.state
                    /\ think' = [think EXCEPT ![u] = <<w.value>>]
                    /\ remaining' = [remaining EXCEPT ![u] = w.ms]
                    /\ pc' = [pc EXCEPT ![u] = "sleeping"]
             ELSE /\ pc' = [pc EXCEPT ![u] = "stopped"]
                  /\ UNCHANGED <<rng, think, remaining>>
     ELSE UNCHANGED <<rng, payload, builtAt, think, remaining, outcome, pc>>
  /\ UNCHANGED <<clock, runTime, posted, stopReq>>

\* A millisecond passes.  Past MaxClock the clock is no longer followed.
Tick ==
  /\ runTime = NoLimit \/ clock < runTime
  /\ clock' = IF clock < MaxClock THEN clock + 1 ELSE clock
  /\ remaining' = [u \in Users |-> IF remaining[u] > 0 THEN remaining[u] - 1 ELSE 0]
  /\ UNCHANGED <<rng, runTime, pc, payload, builtAt, inflight, posted, think,
                 outcome, stopReq>>

\* The harness stops a user (run-time limit, user count lowered, run ended):
\* its greenlet is killed at its suspension point.
Stop(u) ==
  /\ CpuFree
  /\ pc[u] # "stopped"
  /\ stopReq' = [stopReq EXCEPT ![u] = TRUE]
  /\ pc' = [pc EXCEPT ![u] = "stopped"]
  /\ inflight' = [inflight EXCEPT ![u] = <<>>]
  /\ payload' = [payload EXCEPT ![u] = <<>>]
  /\ builtAt' = [builtAt EXCEPT ![u] = 0]
  /\ remaining' = [remaining EXCEPT ![u] = 0]
  /\ UNCHANGED <<rng, clock, runTime, posted, think, outcome>>

Next ==
  \/ \E u \in Users : send_metric_build(u)
  \/ \E u \in Users : send_metric_post(u)
  \/ \E u \in Users : \E status \in Statuses : Respond(u, status)
  \/ Tick
  \/ \E u \in Users : Stop(u)

Spec == Init /\ [][Next]_vars

\* One user of an unlimited run on its own (the harness has stopped the
\* others), from every seed of the generator.
SoloInit ==
  /\ rng \in AllSeeds
  /\ clock = ClockStart
  /\ runTime = NoLimit
  /\ pc = [u \in Users |-> IF u = 1 THEN "ready" ELSE "stopped"]
  /\ payload = [u \in Users |-> <<>>]
  /\ builtAt = [u \in Users |-> 0]
  /\ inflight = [u \in Users |-> <<>>]
  /\ posted = [u \in Users |-> 0]
  /\ think = [u \in Users |-> <<>>]
  /\ remaining = [u \in Users |-> 0]
  /\ outcome = [u \in Users |-> <<>>]
  /\ stopReq = [u \in Users |-> u # 1]

SoloSpec == SoloInit /\ [][Next]_vars

\* The scheduling of the harness: the wall clock advances, a request is
\* eventually answered or failed, and the greenlet scheduler runs a user that
\* stays runnable.
Fairness ==
  /\ WF_vars(Tick)
  /\ \A u \in Users : WF_vars(send_metric_build(u))
  /\ \A u \in Users : WF_vars(send_metric_post(u))
  /\ \A u \in Users : WF_vars(\E status \in Statuses : Respond(u, status))

LiveSpec == SoloSpec /\ Fairness

\* ================================================================ claims
\* The payload dicts of user u that exist in a state: the one its running
\* send_metric holds and the bodies of its requests on the wire.
Payloads(u) ==
  {payload[u][i] : i \in DOMAIN payload[u]}
    \cup {inflight[u][i].json : i \in DOMAIN inflight[u]}

DigitValue(c) ==
  CASE c = "0" -> 0 [] c = "1" -> 1 [] c = "2" -> 2 [] c = "3" -> 3
    [] c = "4" -> 4 [] c = "5" -> 5 [] c = "6" -> 6 [] c = "7" -> 7
    [] c = "8" -> 8 [] c = "9" -> 9 [] OTHER -> 0 - 1

\* The number a decimal numeral (no sign, no leading zero) denotes, or -1.
RECURSIVE ParseNat(_)
ParseNat(cs) ==
  IF cs = <<>> THEN 0 - 1
  ELSE IF Len(cs) = 1 THEN DigitValue(cs[1])
  ELSE LET hi == ParseNat(SubSeq(cs, 1, Len(cs) - 1))
           lo == DigitValue(cs[Len(cs)])
       IN IF hi <= 0 \/ lo < 0 THEN 0 - 1 ELSE 10 * hi + lo

\* The n of a string "device-<n>", or -1 when the string has not that form.
DeviceNumber(dev) ==
  IF Len(dev) > 7 /\ SubSeq(dev, 1, 7) = <<"d", "e", "v", "i", "c", "e", "-">>
  THEN ParseNat(SubSeq(dev, 8, Len(dev)))
  ELSE 0 - 1

\* The device and rps items built from every state of the generator.
EveryDrawnDeviceAndRpsInRange ==
  \A s \in AllSeeds :
    /\ DeviceNumber(device_name(randint(1, 200, s).value)) \in 1..200
    /\ DeviceNumber(PayloadFields[s].device) \in 1..200
    /\ PayloadFields[s].rps \in 50..150

\* C1: in every payload, device is "device-" followed by the decimal numeral
\* of an integer in 1..200, and rps is an integer in 50..150; and so it is for
\* the draw from every state of the generator.
C1_DeviceAndRpsInRange ==
  /\ EveryDrawnDeviceAndRpsInRange
  /\ \A u \in Users : \A p \in Payloads(u) :
       /\ DeviceNumber(p.device) \in 1..200
       /\ p.rps \in 50..150

\* C1 witness: a request on the wire carries both upper bounds, device-200
\* and rps 150.
C1_Witness ==
  \E u \in Users : \E i \in DOMAIN inflight[u] :
    /\ DeviceNumber(inflight[u][i].json.device) = 200
    /\ inflight[u][i].json.rps = 150

\* cpu lies in [0, 100] and cpu * 100 is a whole number.
CpuOk(cpu) ==
  /\ RatLeq(Rat(0, 1), cpu)
  /\ RatLeq(cpu, Rat(100, 1))
  /\ IsWhole(RatMul(cpu, Rat(100, 1)))

\* The cpu item for every value random.random() can return.
EveryDrawnCpuOk == \A s \in AllSeeds : CpuOk(cpu_value(random_random(s).value))

\* C2: in every payload, cpu lies in [0, 100] and has at most two decimal
\* places; and so it is for every value random.random() can return.
C2_CpuTwoDecimals ==
  /\ EveryDrawnCpuOk
  /\ \A u \in Users : \A p \in Payloads(u) : CpuOk(p.cpu)

\* C2 witness: a payload whose cpu is 3.12, the rounding of the tie 3.125.
C2_Witness ==
  \E u \in Users : \E p \in Payloads(u) : p.cpu = Rat(312, 100)

\* The think-time w (seconds) is at least 1 ms and at most 5 ms.
ThinkOk(w) ==
  LET ms == RatMul(w, Rat(1000, 1))
  IN RatLeq(Rat(1, 1), ms) /\ RatLeq(ms, Rat(5, 1))

\* The think-time drawn from every state of the generator.
EveryDrawnThinkOk == \A s \in AllSeeds : ThinkOk(WaitTime[s].value)

\* C3: the think-time drawn for a user's wait between two sends is at least
\* 1 ms and at most 5 ms; and so it is for the draw from every state of the
\* generator.
C3_ThinkTimeWithinBounds ==
  /\ EveryDrawnThinkOk
  /\ \A u \in Users : \A i \in DOMAIN think[u] : ThinkOk(think[u][i])

\* C3 witness: a user has sent again after a think-time of more than 4.9 ms.
C3_Witness ==
  \E u \in Users :
    /\ pc[u] = "awaiting"
    /\ think[u] # <<>>
    /\ RatLeq(Rat(49, 10), RatMul(think[u][1], Rat(1000, 1)))

\* Statuses for which the HTTP client raises: no response, 4xx, 5xx.
IsErrorStatus(status) == status = 0 \/ status \in 400..599

\* A request of user u has just been answered (or has failed) and the
\* harness did not stop the user in that step.
Answered(u) == pc[u] = "awaiting" /\ pc'[u] # "awaiting" /\ ~stopReq'[u]

Built(u) == pc[u] # "built" /\ pc'[u] = "built"

\* C6 as amended: the one shared state a payload build writes is the
\* process-wide generator, which it advances; the payload is the function of
\* the generator state and the clock the build started from; the build
\* changes nothing another user holds and nothing of the harness, and no
\* payload outlives its send_metric execution.
C6_BuildWritesOnlyTheGenerator ==
  /\ [][\A u \in Users :
          Built(u) =>
            /\ payload'[u] = <<build_payload(rng, clock).payload>>
            /\ rng' = build_payload(rng, clock).state
            /\ \A v \in Users \ {u} :
                 /\ payload'[v] = payload[v]
                 /\ pc'[v] = pc[v]
                 /\ think'[v] = think[v]
                 /\ posted'[v] = posted[v]
            /\ UNCHANGED <<clock, runTime, inflight, remaining, outcome,
                           stopReq>>]_vars
  /\ [](\A u \in Users : pc[u] \in {"ready", "sleeping", "stopped"} => payload[u] = <<>>)

\* C6 as stated: a payload build writes no shared state, the process-wide
\* generator included.
C6_BuildWritesNoSharedState ==
  [][\A u \in Users : Built(u) => rng' = rng]_vars

\* C6 witness: a user has built a payload while the other user's request,
\* built before from the same generator, is on the wire.
C6_Witness ==
  \E u, v \in Users :
    /\ u # v
    /\ pc[u] = "built"
    /\ pc[v] = "awaiting"
    /\ payload[u] # payload[v]

\* C7: the timestamp of a request is the wall clock at the construction of
\* its payload truncated to whole seconds; it is not later than the clock
\* when the POST is issued, and is behind it by less than one second plus
\* the time between construction and send.
C7_TimestampWithinDelta ==
  \A u \in Users : \A i \in DOMAIN inflight[u] :
    LET r == inflight[u][i]
        ts == r.json.timestamp * 1000
    IN /\ ts <= r.builtAt
       /\ r.builtAt < ts + 1000
       /\ r.builtAt <= r.sentAt
       /\ ts <= r.sentAt
       /\ r.sentAt - ts < 1000 + (r.sentAt - r.builtAt)

\* C7 witness: a request built in one second of the wall clock and issued in
\* the next.
C7_Witness ==
  \E u \in Users : \E i \in DOMAIN inflight[u] :
    /\ inflight[u][i].builtAt < inflight[u][i].sentAt
    /\ inflight[u][i].json.timestamp < inflight[u][i].sentAt \div 1000

\* C8: an execution of send_metric issues exactly one request, a POST to
\* /ingest whose body is the payload of that execution with its four fields,
\* and the request is not sent again whatever its outcome.
C8_OnePostPerExecution ==
  \A u \in Users :
    /\ posted[u] <= 1
    /\ pc[u] = "built" => posted[u] = 0 /\ inflight[u] = <<>>
    /\ pc[u] = "awaiting" =>
         /\ posted[u] = 1
         /\ Len(inflight[u]) = 1
         /\ inflight[u][1].method = "POST"
         /\ inflight[u][1].path = "/ingest"
         /\ inflight[u][1].json = payload[u][1]
         /\ DOMAIN inflight[u][1].json = {"device", "timestamp", "cpu", "rps"}
    /\ pc[u] = "sleeping" => posted[u] = 1 /\ inflight[u] = <<>>

\* C8 witness: a request failed, and its user is in its think-time with the
\* one POST of that execution and nothing on the wire.
C8_Witness ==
  \E u \in Users :
    /\ pc[u] = "sleeping"
    /\ outcome[u] # <<>>
    /\ outcome[u][1].result = "failure"
    /\ posted[u] = 1
    /\ inflight[u] = <<>>

\* C9: the only step that stops a user is the harness's stop; and a user
\* the harness has not stopped always eventually issues another POST, each
\* of its POSTs being answered or failed.
C9_RepeatsUntilStopped ==
  /\ [][\A u \in Users : (pc[u] # "stopped" /\ pc'[u] = "stopped") => stopReq'[u]]_vars
  /\ \A u \in Users : []<>(pc[u] = "stopped" \/ pc[u] = "awaiting")
  /\ \A u \in Users : []<>(pc[u] = "stopped" \/ pc[u] # "awaiting")

\* C9 witness: past the horizon of the clock, a user the harness has not
\* stopped has a further POST on the wire after an earlier one has failed.
C9_Witness ==
  \E u \in Users :
    /\ clock = MaxClock
    /\ ~stopReq[u]
    /\ pc[u] = "awaiting"
    /\ outcome[u] # <<>>
    /\ outcome[u][1].result = "failure"

\* C10: a user has at most one request on the wire; it is awaiting exactly
\* when it has one, and it neither builds, posts nor sleeps while a POST of
\* its own is unanswered.
C10_OneRequestInFlightPerUser ==
  \A u \in Users :
    /\ pc[u] \in {"ready", "built", "awaiting", "sleeping", "stopped"}
    /\ Len(inflight[u]) <= 1
    /\ pc[u] = "awaiting" <=> Len(inflight[u]) = 1

\* C10 witness: the requests of two users overlap.
C10_Witness ==
  \E u, v \in Users : u # v /\ Len(inflight[u]) = 1 /\ Len(inflight[v]) = 1

====
